---- MODULE Spec2Model ----
(***************************************************************************)
(* WeaveAI: document ingestion, document store and the retrieval-augmented *)
(* answer pipeline (src/document_processor.py, src/rag_pipeline.py,        *)
(* src/auto_enrichment.py, src/main.py).                                   *)
(*                                                                         *)
(* Python values that can take several types are written <<tag, payload>>  *)
(* ("str", "list", "dict", "int"); a str payload is the sequence of the    *)
(* parts an f-string concatenates.                                         *)
(***************************************************************************)
EXTENDS Integers, Sequences, FiniteSets, TLC

VARIABLES
    collection,   \* the Chroma collection "documents": stored chunks, in insertion order
    disk,         \* the upload directory: the names of the files that exist in it
    uuid_draws,   \* how many uuid4() values have been drawn so far
    last,         \* the last call made on the application and what it gave back
    components,   \* the objects module initialisation built, and what each one holds
    loop,         \* the request whose handler holds the event loop's thread, or NoRequest
    requests,     \* the requests in flight: where each handler stands
    written       \* what each text file holds that an upload saved and reads back after an await

vars == <<collection, disk, uuid_draws, last, components, loop, requests, written>>

----------------------------------------------------------------------------
\* Bounds of the model.

\* longest file content, in characters
MaxTextLen == 2
\* number of uuid4() draws, i.e. of documents ever stored
MaxUuid == 2

----------------------------------------------------------------------------
\* Configuration (src/config.py). CHUNK_SIZE, CHUNK_OVERLAP and TOP_K_DOCUMENTS
\* are read from the environment; the model runs a deployment whose values are
\* small enough for splitting and truncation to k hits to happen within MaxTextLen.

MAX_FILE_SIZE_MB == 50
CHUNK_SIZE == 1
CHUNK_OVERLAP == 0
TOP_K_DOCUMENTS == 2
UPLOAD_DIRECTORY == "./uploads"
ALLOWED_EXTENSIONS == {".pdf", ".docx", ".txt", ".md"}

----------------------------------------------------------------------------
\* Inputs.

Alphabet == {"a", " "}
Whitespace == {" "}
\* File contents: the empty file, a file of whitespace, and files of 1..MaxTextLen
\* letters. disk keeps which files exist. A handler that runs without another
\* one in between reads the file it has just written, so the call that reads it
\* is given that content; an upload that awaits between the write and the read
\* is given what the file holds by then (written).
Texts == {<<>>, <<" ">>} \cup {[i \in 1..n |-> "a"] : n \in 1..MaxTextLen}

\* Filenames a request can carry, with Path(filename).suffix.lower() and the
\* rank of the name in Python's string order.
Filenames == {"a.txt", "b.pdf", "c.exe"}
\* the names auto_enrich_knowledge_base gives the files it writes
EnrichedFilenames == {"auto_enriched_a.txt", "auto_enriched_aa.txt"}
suffix(filename) ==
    CASE filename = "a.txt" -> ".txt"
      [] filename = "b.pdf" -> ".pdf"
      [] filename = "c.exe" -> ".exe"
      [] filename \in EnrichedFilenames -> ".txt"
      [] filename = "sub/d.txt" -> ".txt"
StrOrd(filename) ==
    CASE filename = "a.txt" -> 1
      [] filename = "auto_enriched_a.txt" -> 2
      [] filename = "auto_enriched_aa.txt" -> 3
      [] filename = "b.pdf" -> 4
      [] filename = "c.exe" -> 5
      [] filename = "sub/d.txt" -> 6

\* os.path.join(config.UPLOAD_DIRECTORY, file.filename)
path_join(dir, name) == <<dir, name>>
basename(file_path) == file_path[2]

MaxBytes == MAX_FILE_SIZE_MB * 1024 * 1024
FileSizes == {MaxBytes, MaxBytes + 1}

\* What the environment does to one ingestion: nothing, or it makes the text
\* extraction, the embedding model or the store write raise.
IngestFaults == {"none", "extract", "embed", "add"}

\* Document ids a delete request can name: every uuid that can be drawn, and
\* one that never is.
DocumentIds == 1..(MaxUuid + 1)

----------------------------------------------------------------------------
\* str.strip()

RECURSIVE lstrip(_)
lstrip(s) ==
    IF s = <<>> THEN s
    ELSE IF Head(s) \in Whitespace THEN lstrip(Tail(s)) ELSE s

RECURSIVE rstrip(_)
rstrip(s) ==
    IF s = <<>> THEN s
    ELSE IF s[Len(s)] \in Whitespace THEN rstrip(SubSeq(s, 1, Len(s) - 1)) ELSE s

strip(s) == rstrip(lstrip(s))

\* RecursiveCharacterTextSplitter.split_text: windows of CHUNK_SIZE characters
\* that overlap by CHUNK_OVERLAP, each stripped, the empty ones dropped.
RECURSIVE windows(_)
windows(t) ==
    IF Len(t) = 0 THEN <<>>
    ELSE IF Len(t) <= CHUNK_SIZE THEN <<t>>
    ELSE <<SubSeq(t, 1, CHUNK_SIZE)>>
             \o windows(SubSeq(t, CHUNK_SIZE - CHUNK_OVERLAP + 1, Len(t)))

RECURSIVE drop_empty(_)
drop_empty(parts) ==
    IF parts = <<>> THEN <<>>
    ELSE IF strip(Head(parts)) = <<>> THEN drop_empty(Tail(parts))
    ELSE <<strip(Head(parts))>> \o drop_empty(Tail(parts))

chunk_text(text) == drop_empty(windows(strip(text)))

\* SentenceTransformer.encode, one text: a deterministic unit vector in the
\* plane, given by its angle in quarter turns.
RECURSIVE count_letters(_)
count_letters(t) ==
    IF t = <<>> THEN 0
    ELSE (IF Head(t) \in Whitespace THEN 0 ELSE 1) + count_letters(Tail(t))

encode(text) == count_letters(text) % 4

generate_embeddings(texts) == [i \in 1..Len(texts) |-> encode(texts[i])]

\* Cosine distance of two such vectors, in thousandths: 1 - cos(angle).
cosine_distance(u, v) ==
    LET d == (u - v + 4) % 4
    IN  CASE d = 0 -> 0
          [] d = 2 -> 2000
          [] OTHER -> 1000

----------------------------------------------------------------------------
\* The Chroma collection.

\* collection.add(embeddings, documents, metadatas, ids)
collection_add(coll, embeddings, documents, metadatas, ids) ==
    coll \o [i \in 1..Len(ids) |->
                [id |-> ids[i], document |-> documents[i],
                 embedding |-> embeddings[i], metadata |-> metadatas[i]]]

RECURSIVE select(_, _)
\* the entries of coll whose metadata has the given document_id
select(coll, document_id) ==
    IF coll = <<>> THEN <<>>
    ELSE IF Head(coll).metadata.document_id = document_id
         THEN <<Head(coll)>> \o select(Tail(coll), document_id)
         ELSE select(Tail(coll), document_id)

RECURSIVE reject(_, _)
reject(coll, document_id) ==
    IF coll = <<>> THEN <<>>
    ELSE IF Head(coll).metadata.document_id = document_id
         THEN reject(Tail(coll), document_id)
         ELSE <<Head(coll)>> \o reject(Tail(coll), document_id)

\* collection.get(where={"document_id": document_id}, include=["metadatas"])
collection_get_where(coll, document_id) ==
    LET found == select(coll, document_id)
    IN  [ids |-> [i \in 1..Len(found) |-> found[i].id],
         metadatas |-> [i \in 1..Len(found) |-> found[i].metadata]]

\* collection.get(include=["metadatas"])
collection_get(coll) ==
    [ids |-> [i \in 1..Len(coll) |-> coll[i].id],
     metadatas |-> [i \in 1..Len(coll) |-> coll[i].metadata]]

\* a variant that deletes by the document's filename
RECURSIVE reject_filenames(_, _)
reject_filenames(coll, filenames) ==
    IF coll = <<>> THEN <<>>
    ELSE IF Head(coll).metadata.filename \in filenames
         THEN reject_filenames(Tail(coll), filenames)
         ELSE <<Head(coll)>> \o reject_filenames(Tail(coll), filenames)

collection_delete_where_filename(coll, document_id) ==
    LET found == select(coll, document_id)
    IN  reject_filenames(coll, {found[i].metadata.filename : i \in 1..Len(found)})

\* a variant that removes the matching entries one call at a time and stops
\* after the first
RECURSIVE reject_first(_, _)
reject_first(coll, document_id) ==
    IF coll = <<>> THEN <<>>
    ELSE IF Head(coll).metadata.document_id = document_id THEN Tail(coll)
    ELSE <<Head(coll)>> \o reject_first(Tail(coll), document_id)

collection_delete_first_chunk(coll, document_id) == reject_first(coll, document_id)

\* collection.delete(where={"document_id": document_id})
collection_delete_where(coll, document_id) == reject(coll, document_id)

\* a variant that counts the documents instead of the chunks
collection_count_documents(coll) ==
    Cardinality({coll[i].metadata.document_id : i \in 1..Len(coll)})

\* collection.count()
collection_count(coll) == Len(coll)

----------------------------------------------------------------------------
\* DocumentProcessor.process_and_store_document

\* a variant that gives every document the same id
uuid4_repeating(draws) == 1

\* str(uuid.uuid4()): the n-th draw gives a value no earlier draw gave
uuid4(draws) == draws + 1

\* a variant that names the chunks by their index alone
chunk_ids_without_document(document_id, n) == [k \in 1..n |-> <<k - 1>>]

\* [f"{document_id}_{i}" for i in range(n)]; chunk indices count from 0, a
\* Python list's element i is element i + 1 of the sequence
chunk_ids(document_id, n) == [k \in 1..n |-> <<document_id, k - 1>>]

\* a variant that counts the chunks from 1
chunk_metadatas_from_one(document_id, filename, file_path, n) ==
    [k \in 1..n |->
        [document_id |-> document_id, filename |-> filename,
         chunk_index |-> k, total_chunks |-> n, file_path |-> file_path]]

\* the metadatas list built at "Prepare metadata"
chunk_metadatas(document_id, filename, file_path, n) ==
    [k \in 1..n |->
        [document_id |-> document_id, filename |-> filename,
         chunk_index |-> k - 1, total_chunks |-> n, file_path |-> file_path]]

error_result(filename, message) ==
    [filename |-> filename, status |-> "error", error |-> message]

\* The state a call works on and leaves behind, with the value it returns.
Outcome(coll, dsk, draws, ret) ==
    [collection |-> coll, disk |-> dsk, uuid_draws |-> draws, ret |-> ret]

\* extract_text_from_file: the text, or the exception raised; content is what
\* the file at file_path holds
extract_text_from_file(dsk, file_path, content, fault) ==
    LET file_extension == suffix(basename(file_path))
    IN  IF file_extension \notin {".pdf", ".docx", ".txt", ".md"}
        THEN [raised |-> TRUE, error |-> <<"Unsupported file type: ", file_extension>>]
        ELSE IF basename(file_path) \notin dsk
        THEN [raised |-> TRUE, error |-> <<"FileNotFoundError">>]
        ELSE IF fault = "extract"
        THEN [raised |-> TRUE, error |-> <<"extraction failed">>]
        ELSE [raised |-> FALSE, text |-> content]

\* a variant that embeds and stores one chunk after the other, so that a
\* failure of the embedding model leaves the first chunk stored
process_and_store_document_chunk_by_chunk(coll, dsk, draws, file_path, filename, content, fault) ==
    LET extracted == extract_text_from_file(dsk, file_path, content, fault)
    IN  IF extracted.raised
        THEN Outcome(coll, dsk, draws, error_result(filename, extracted.error))
        ELSE
        LET text == extracted.text
            chunks == chunk_text(text)
            document_id == uuid4(draws)
            n == Len(chunks)
        IN  IF strip(text) = <<>>
            THEN Outcome(coll, dsk, draws,
                     error_result(filename, <<"No text content found in the document">>))
            ELSE IF chunks = <<>>
            THEN Outcome(coll, dsk, draws,
                     error_result(filename, <<"No chunks generated from the document">>))
            ELSE IF fault = "embed"
            THEN Outcome(
                     collection_add(coll, generate_embeddings(SubSeq(chunks, 1, 1)),
                         SubSeq(chunks, 1, 1),
                         SubSeq(chunk_metadatas(document_id, filename, file_path, n), 1, 1),
                         SubSeq(chunk_ids(document_id, n), 1, 1)),
                     dsk, draws + 1, error_result(filename, <<"embedding failed">>))
            ELSE IF fault = "add"
            THEN Outcome(coll, dsk, draws + 1, error_result(filename, <<"store write failed">>))
            ELSE Outcome(
                     collection_add(coll, generate_embeddings(chunks), chunks,
                         chunk_metadatas(document_id, filename, file_path, n),
                         chunk_ids(document_id, n)),
                     dsk, draws + 1,
                     [document_id |-> document_id, filename |-> filename,
                      total_chunks |-> n, status |-> "success"])

process_and_store_document(coll, dsk, draws, file_path, filename, content, fault) ==
    LET extracted == extract_text_from_file(dsk, file_path, content, fault)
    IN  IF extracted.raised
        THEN Outcome(coll, dsk, draws, error_result(filename, extracted.error))
        ELSE
        LET text == extracted.text
            chunks == chunk_text(text)
            document_id == uuid4(draws)
            n == Len(chunks)
        IN  IF strip(text) = <<>>
            THEN Outcome(coll, dsk, draws,
                     error_result(filename, <<"No text content found in the document">>))
            ELSE IF chunks = <<>>
            THEN Outcome(coll, dsk, draws,
                     error_result(filename, <<"No chunks generated from the document">>))
            ELSE IF fault = "embed"
            THEN Outcome(coll, dsk, draws, error_result(filename, <<"embedding failed">>))
            ELSE IF fault = "add"
            THEN Outcome(coll, dsk, draws + 1, error_result(filename, <<"store write failed">>))
            ELSE Outcome(
                     collection_add(coll, generate_embeddings(chunks), chunks,
                         chunk_metadatas(document_id, filename, file_path, n),
                         chunk_ids(document_id, n)),
                     dsk, draws + 1,
                     [document_id |-> document_id, filename |-> filename,
                      total_chunks |-> n, status |-> "success"])

----------------------------------------------------------------------------
\* DocumentProcessor.get_all_documents

\* What the environment does to one call on the store: nothing ("none"), or it
\* makes collection.get ("get"), collection.delete ("delete"), collection.count
\* ("count") or os.remove ("remove") raise.
ListFaults == {"none", "get"}
StatsFaults == {"none", "count"}
DeleteFaults == {"none", "get", "delete", "remove"}

\* the loop that groups the metadatas by document_id; documents is the dict's
\* values in insertion order
RECURSIVE group_by_document(_, _)
group_by_document(metadatas, documents) ==
    IF metadatas = <<>> THEN documents
    ELSE
    LET metadata == Head(metadatas)
        doc_id == metadata.document_id
        known == \E i \in 1..Len(documents) : documents[i].document_id = doc_id
        entered ==
            IF known THEN documents
            ELSE Append(documents,
                     [document_id |-> doc_id, filename |-> metadata.filename,
                      total_chunks |-> metadata.total_chunks,
                      file_path |-> metadata.file_path, chunks |-> <<>>])
        appended ==
            [i \in 1..Len(entered) |->
                IF entered[i].document_id = doc_id
                THEN [entered[i] EXCEPT !.chunks =
                         Append(@, [chunk_index |-> metadata.chunk_index,
                                    total_chunks |-> metadata.total_chunks])]
                ELSE entered[i]]
    IN  group_by_document(Tail(metadatas), appended)

\* a variant that leaves the documents in the order the grouping met them
sort_by_insertion(list) == list

\* list.sort(key=lambda x: x["filename"]): stable, ascending
RECURSIVE insert_by_filename(_, _)
insert_by_filename(sorted, x) ==
    IF sorted = <<>> THEN <<x>>
    ELSE IF StrOrd(x.filename) < StrOrd(Head(sorted).filename) THEN <<x>> \o sorted
    ELSE <<Head(sorted)>> \o insert_by_filename(Tail(sorted), x)

RECURSIVE sort_by_filename(_)
sort_by_filename(list) ==
    IF list = <<>> THEN <<>>
    ELSE insert_by_filename(sort_by_filename(SubSeq(list, 1, Len(list) - 1)),
                            list[Len(list)])

get_all_documents(coll, fault) ==
    IF fault = "get"
    THEN [status |-> "error", error |-> <<"store read failed">>, documents |-> <<>>]
    ELSE
    LET results == collection_get(coll)
        document_list == sort_by_filename(group_by_document(results.metadatas, <<>>))
    IN  [documents |-> document_list,
         total_documents |-> Len(document_list),
         total_chunks |-> Len(results.metadatas),
         status |-> "success"]

\* DocumentProcessor.get_document_stats
get_document_stats(coll, fault) ==
    IF fault = "count"
    THEN [status |-> "error", error |-> <<"store count failed">>]
    ELSE [total_chunks |-> collection_count(coll), status |-> "success"]

----------------------------------------------------------------------------
\* DocumentProcessor.delete_document

\* os.remove(file_path) under "if file_path and os.path.exists(file_path)",
\* with OSError swallowed
remove_file(dsk, file_path, fault) ==
    IF basename(file_path) \in dsk /\ fault # "remove"
    THEN dsk \ {basename(file_path)}
    ELSE dsk

\* a variant that removes the file before the store deletion and lets a
\* failure of the removal reach the outer except
delete_document_file_first(coll, dsk, draws, document_id, fault) ==
    IF fault = "get"
    THEN Outcome(coll, dsk, draws, [status |-> "error", error |-> <<"store read failed">>])
    ELSE
    LET results == collection_get_where(coll, document_id)
    IN  IF results.ids = <<>>
        THEN Outcome(coll, dsk, draws,
                 [status |-> "error", error |-> <<"Document not found">>])
        ELSE IF fault = "remove"
        THEN Outcome(coll, dsk, draws,
                 [status |-> "error", error |-> <<"file removal failed">>])
        ELSE
        LET filename == results.metadatas[1].filename
            chunk_count == Len(results.ids)
            file_path == results.metadatas[1].file_path
        IN  IF fault = "delete"
            THEN Outcome(coll, remove_file(dsk, file_path, fault), draws,
                     [status |-> "error", error |-> <<"store delete failed">>])
            ELSE Outcome(collection_delete_where(coll, document_id),
                     remove_file(dsk, file_path, fault), draws,
                     [status |-> "success",
                      message |-> <<"Document '", filename, "' deleted successfully">>,
                      deleted_chunks |-> chunk_count,
                      filename |-> filename])

\* a variant without the "Document not found" return
delete_document_without_lookup_check(coll, dsk, draws, document_id, fault) ==
    IF fault = "get"
    THEN Outcome(coll, dsk, draws, [status |-> "error", error |-> <<"store read failed">>])
    ELSE
    LET results == collection_get_where(coll, document_id)
        known == results.metadatas # <<>>
    IN  IF fault = "delete"
        THEN Outcome(coll, dsk, draws,
                 [status |-> "error", error |-> <<"store delete failed">>])
        ELSE
        LET filename == IF known THEN results.metadatas[1].filename ELSE "Unknown"
            chunk_count == Len(results.ids)
        IN  Outcome(collection_delete_where(coll, document_id),
                IF known THEN remove_file(dsk, results.metadatas[1].file_path, fault)
                ELSE dsk,
                draws,
                [status |-> "success",
                 message |-> <<"Document '", filename, "' deleted successfully">>,
                 deleted_chunks |-> chunk_count,
                 filename |-> filename])

delete_document(coll, dsk, draws, document_id, fault) ==
    IF fault = "get"
    THEN Outcome(coll, dsk, draws, [status |-> "error", error |-> <<"store read failed">>])
    ELSE
    LET results == collection_get_where(coll, document_id)
    IN  IF results.ids = <<>>
        THEN Outcome(coll, dsk, draws,
                 [status |-> "error", error |-> <<"Document not found">>])
        ELSE IF fault = "delete"
        THEN Outcome(coll, dsk, draws,
                 [status |-> "error", error |-> <<"store delete failed">>])
        ELSE
        LET filename == results.metadatas[1].filename
            chunk_count == Len(results.ids)
            file_path == results.metadatas[1].file_path
        IN  Outcome(collection_delete_where(coll, document_id),
                remove_file(dsk, file_path, fault), draws,
                [status |-> "success",
                 message |-> <<"Document '", filename, "' deleted successfully">>,
                 deleted_chunks |-> chunk_count,
                 filename |-> filename])

----------------------------------------------------------------------------
\* main.upload_documents, for a request that carries one file

UploadFiles ==
    [filename : Filenames, size : FileSizes, content : Texts]

upload_documents(coll, dsk, draws, file, fault) ==
    LET file_extension == suffix(file.filename)
        file_path == path_join(UPLOAD_DIRECTORY, file.filename)
    IN  IF file_extension \notin ALLOWED_EXTENSIONS
        THEN Outcome(coll, dsk, draws,
                 error_result(file.filename, <<"Unsupported file type: ", file_extension>>))
        ELSE IF file.size > MAX_FILE_SIZE_MB * 1024 * 1024
        THEN Outcome(coll, dsk, draws,
                 error_result(file.filename,
                     <<"File too large. Maximum size: ", ToString(MAX_FILE_SIZE_MB), "MB">>))
        ELSE process_and_store_document(coll, dsk \cup {file.filename}, draws,
                 file_path, file.filename, file.content, fault)

----------------------------------------------------------------------------
\* Python values of the completion path.

PyStr(parts) == <<"str", parts>>
\* a str that is the JSON encoding of value
JsonText(value) == <<"json", value>>
PyList(items) == <<"list", items>>
PyDict(items) == <<"dict", items>>
PyInt(n) == <<"int", n>>
Raise(exception) == <<"raise", exception>>
EmptyDict == PyDict([key \in {} |-> <<>>])

IsRaise(v) == v[1] = "raise"

\* json.loads(s) and response.json()
json_loads(s) ==
    CASE s[1] = "json" -> s[2]
      [] s[1] = "str" -> Raise("JSONDecodeError")
      [] OTHER -> Raise("TypeError")

\* value[key] for a str key, value[0] for the key 0
getitem(value, key) ==
    IF IsRaise(value) THEN value
    ELSE IF key = "0"
    THEN IF value[1] = "list"
         THEN IF Len(value[2]) > 0 THEN value[2][1] ELSE Raise("IndexError")
         ELSE IF value[1] = "dict" THEN Raise("KeyError") ELSE Raise("TypeError")
    ELSE IF value[1] = "dict"
         THEN IF key \in DOMAIN value[2] THEN value[2][key] ELSE Raise("KeyError")
         ELSE Raise("TypeError")

\* response.get(key, default) in generate_answer, response being a dict
dict_get(response, key, default) ==
    IF key \in DOMAIN response[2] THEN response[2][key] ELSE default

----------------------------------------------------------------------------
\* What the completion endpoint can answer to one POST.

ChatCompletion(content) ==
    JsonText(PyDict("choices" :> PyList(<<PyDict("message" :> PyDict("content" :> content))>>)))

Response(status_code, text) == <<"response", status_code, text>>

CompleteAnswer ==
    PyDict("answer" :> PyStr(<<"an answer">>)
         @@ "missing_info" :> PyList(<<>>)
         @@ "enrichment_suggestions" :> PyList(<<>>))
IncompleteAnswer ==
    PyDict("answer" :> PyStr(<<"a partial answer">>)
         @@ "missing_info" :> PyList(<<PyStr(<<"Product details">>)>>)
         @@ "enrichment_suggestions" :> PyList(<<PyStr(<<"Include product information">>)>>))
\* JSON objects and values that do not follow the schema of the prompt
WrongTypes ==
    PyDict("answer" :> PyInt(42)
         @@ "missing_info" :> PyStr(<<"Product details">>)
         @@ "enrichment_suggestions" :> PyInt(0))

CompletionReplies ==
    { Raise("ConnectError"),
      Response(500, PyStr(<<"Internal Server Error">>)),
      Response(200, PyStr(<<"<html>gateway</html>">>)),
      Response(200, JsonText(PyDict("error" :> PyStr(<<"filtered">>)))),
      Response(200, ChatCompletion(PyStr(<<"Here is the answer">>))),
      Response(200, ChatCompletion(JsonText(CompleteAnswer))),
      Response(200, ChatCompletion(JsonText(IncompleteAnswer))),
      Response(200, ChatCompletion(JsonText(EmptyDict))),
      Response(200, ChatCompletion(JsonText(WrongTypes))),
      Response(200, ChatCompletion(JsonText(PyList(<<>>)))) }

----------------------------------------------------------------------------
\* DocumentProcessor.search_documents

Queries == {<<"a">>, <<"a", "a">>}
SearchFaults == {"none", "encode", "query"}

\* hits in ascending distance; hits at the same distance keep their insertion order
RECURSIVE insert_by_distance(_, _)
insert_by_distance(sorted, hit) ==
    IF sorted = <<>> THEN <<hit>>
    ELSE IF hit.distance < Head(sorted).distance THEN <<hit>> \o sorted
    ELSE <<Head(sorted)>> \o insert_by_distance(Tail(sorted), hit)

RECURSIVE sort_by_distance(_)
sort_by_distance(hits) ==
    IF hits = <<>> THEN <<>>
    ELSE insert_by_distance(sort_by_distance(SubSeq(hits, 1, Len(hits) - 1)),
                            hits[Len(hits)])

Min(a, b) == IF a < b THEN a ELSE b
Max(a, b) == IF a > b THEN a ELSE b

\* collection.query(query_embeddings=[e], n_results=k): the k nearest entries
collection_query(coll, query_embedding, n_results) ==
    LET hits == [i \in 1..Len(coll) |->
                    [document |-> coll[i].document, metadata |-> coll[i].metadata,
                     distance |-> cosine_distance(query_embedding, coll[i].embedding)]]
        nearest == sort_by_distance(hits)
    IN  SubSeq(nearest, 1, Min(n_results, Len(nearest)))

search_documents(coll, query, fault) ==
    IF fault = "encode" THEN Raise("embedding model failed")
    ELSE IF fault = "query" THEN Raise("store query failed")
    ELSE
    LET results == collection_query(coll, encode(query), TOP_K_DOCUMENTS)
    IN  <<"dict",
          [documents |-> [i \in 1..Len(results) |-> results[i].document],
           metadatas |-> [i \in 1..Len(results) |-> results[i].metadata],
           distances |-> [i \in 1..Len(results) |-> results[i].distance]]>>

----------------------------------------------------------------------------
\* RAGPipeline

\* a variant that sends each distinct block once
RECURSIVE drop_repeated(_)
drop_repeated(blocks) ==
    IF blocks = <<>> THEN <<>>
    ELSE LET front == drop_repeated(SubSeq(blocks, 1, Len(blocks) - 1))
             block == blocks[Len(blocks)]
         IN  IF \E i \in 1..Len(front) : front[i] = block THEN front
             ELSE Append(front, block)

prepare_context_deduplicated(search_results) ==
    drop_repeated(
        [i \in 1..Len(search_results.documents) |->
            <<"Document: ", search_results.metadatas[i].filename,
              "\nContent: ", search_results.documents[i], "\n---">>])

\* the blocks "\n".join puts together
prepare_context(search_results) ==
    [i \in 1..Len(search_results.documents) |->
        <<"Document: ", search_results.metadatas[i].filename,
          "\nContent: ", search_results.documents[i], "\n---">>]

\* the dict the except branch of _call_openai_with_completeness_check returns
completion_failure(e) ==
    PyDict("answer" :> PyStr(<<"Error generating response: ", e>>)
           @@ "missing_info" :> PyList(<<PyStr(<<"System error occurred">>)>>)
           @@ "enrichment_suggestions" :>
                  PyList(<<PyStr(<<"Check system configuration and try again">>)>>))

\* the dict its else branch returns for a status code other than 200
api_call_failed(status_code, text) ==
    PyDict("answer" :> PyStr(<<"Error calling OpenAI API: ", ToString(status_code),
                               " - ", text>>)
           @@ "missing_info" :> PyList(<<PyStr(<<"API call failed">>)>>)
           @@ "enrichment_suggestions" :>
                  PyList(<<PyStr(<<"Check API configuration and try again">>)>>))

\* result["choices"][0]["message"]["content"]
message_content(result) ==
    getitem(getitem(getitem(getitem(result, "choices"), "0"), "message"), "content")

\* a variant that raises on a status other than 200, into the except branch
call_openai_raise_for_status(reply) ==
    IF IsRaise(reply) THEN completion_failure(reply[2])
    ELSE IF reply[2] = 200
    THEN LET content == message_content(json_loads(reply[3]))
             parsed == json_loads(content)
         IN  IF IsRaise(content) THEN completion_failure(content[2])
             ELSE IF IsRaise(parsed) THEN completion_failure(parsed[2])
             ELSE parsed
    ELSE completion_failure("HTTPStatusError")

\* a variant whose try covers the POST alone: a parse error propagates
call_openai_parse_outside_try(reply) ==
    IF IsRaise(reply) THEN completion_failure(reply[2])
    ELSE IF reply[2] = 200
    THEN LET content == message_content(json_loads(reply[3]))
         IN  IF IsRaise(content) THEN content ELSE json_loads(content)
    ELSE api_call_failed(reply[2], reply[3])

\* _call_openai_with_completeness_check, given the endpoint's reply to the POST
call_openai_with_completeness_check(reply) ==
    IF IsRaise(reply) THEN completion_failure(reply[2])
    ELSE IF reply[2] = 200
    THEN LET content == message_content(json_loads(reply[3]))
             parsed == json_loads(content)
         IN  IF IsRaise(content) THEN completion_failure(content[2])
             ELSE IF IsRaise(parsed) THEN completion_failure(parsed[2])
             ELSE parsed
    ELSE api_call_failed(reply[2], reply[3])

\* round(num / den, 0) for den > 0, as Python rounds: to nearest, ties to even.
\* (On floats a value written as a tie is rounded by the double that stands for
\* it, up or down; the properties below allow either.)
round_half_even(num, den) ==
    LET q == num \div den
        r == num % den
    IN  IF 2 * r < den THEN q
        ELSE IF 2 * r > den THEN q + 1
        ELSE IF q % 2 = 0 THEN q ELSE q + 1

RECURSIVE sum(_)
sum(numbers) == IF numbers = <<>> THEN 0 ELSE Head(numbers) + sum(Tail(numbers))

\* a variant without max(0.0, min(1.0, ...))
calculate_confidence_unclamped(distances) ==
    IF distances = <<>> THEN 0
    ELSE round_half_even(2000 * Len(distances) - sum(distances), 2 * Len(distances))

\* a variant that takes the sum of the distances for their average
calculate_confidence_of_sum(distances) ==
    IF distances = <<>> THEN 0
    ELSE round_half_even(Max(0, Min(2000, 2000 - sum(distances))), 2)

\* _calculate_confidence; distances and the result are in thousandths
calculate_confidence(distances) ==
    IF distances = <<>> THEN 0
    ELSE
    LET n == Len(distances)
        \* 1.0 - avg_distance / 2.0 is num / (2 * n) thousandths
        num == 2000 * n - sum(distances)
        clamped == Max(0, Min(1000 * 2 * n, num))
    IN  round_half_even(clamped, 2 * n)

\* a variant whose relevance score is clamped to [0, 1] as the confidence is
prepare_sources_clamped(search_results) ==
    [i \in 1..Len(search_results.metadatas) |->
        [filename |-> search_results.metadatas[i].filename,
         chunk_index |-> search_results.metadatas[i].chunk_index,
         total_chunks |-> search_results.metadatas[i].total_chunks,
         relevance_score |->
             IF i <= Len(search_results.distances)
             THEN Max(0, Min(1000, round_half_even(2000 - search_results.distances[i], 2)))
             ELSE 0]]

\* _prepare_sources
prepare_sources(search_results) ==
    [i \in 1..Len(search_results.metadatas) |->
        [filename |-> search_results.metadatas[i].filename,
         chunk_index |-> search_results.metadatas[i].chunk_index,
         total_chunks |-> search_results.metadatas[i].total_chunks,
         relevance_score |->
             IF i <= Len(search_results.distances)
             THEN round_half_even(2000 - search_results.distances[i], 2)
             ELSE 0]]

NoDocumentsResult ==
    [answer |-> PyStr(<<"I don't have any relevant documents to answer your question.">>),
     confidence |-> 0,
     missing_info |-> PyList(<<PyStr(<<"No relevant documents found in the knowledge base">>)>>),
     enrichment_suggestions |->
         PyList(<<PyStr(<<"Upload documents related to your query">>),
                PyStr(<<"Try rephrasing your question with different keywords">>)>>),
     sources |-> <<>>]

\* generate_answer: whether it raised, what it returned or raised, and its
\* exchanges with the completion endpoint (what it posted, what came back)
Answered(raised, ret, posted) == [raised |-> raised, ret |-> ret, posted |-> posted]

\* a variant that posts the request a second time when the first attempt fails
answer_from_retrying(search_results, query, reply) ==
    LET context == prepare_context(search_results)
        response == call_openai_with_completeness_check(reply)
        attempt == [query |-> query, context |-> context, reply |-> reply]
        failed == IsRaise(reply) \/ reply[2] # 200
        posted == IF failed THEN <<attempt, attempt>> ELSE <<attempt>>
    IN  IF response[1] # "dict"
        THEN Answered(TRUE, [exception |-> "AttributeError"], posted)
        ELSE Answered(FALSE,
                 [answer |-> dict_get(response, "answer", PyStr(<<>>)),
                  confidence |-> calculate_confidence(search_results.distances),
                  missing_info |-> dict_get(response, "missing_info", PyList(<<>>)),
                  enrichment_suggestions |->
                      dict_get(response, "enrichment_suggestions", PyList(<<>>)),
                  sources |-> prepare_sources(search_results)],
                 posted)

\* steps 2 to 5 of generate_answer
answer_from(search_results, query, reply) ==
    LET context == prepare_context(search_results)
        response == call_openai_with_completeness_check(reply)
        confidence == calculate_confidence(search_results.distances)
        sources == prepare_sources(search_results)
        posted == <<[query |-> query, context |-> context, reply |-> reply]>>
    IN  IF response[1] # "dict"
        THEN Answered(TRUE, [exception |-> "AttributeError"], posted)
        ELSE Answered(FALSE,
                 [answer |-> dict_get(response, "answer", PyStr(<<>>)),
                  confidence |-> confidence,
                  missing_info |-> dict_get(response, "missing_info", PyList(<<>>)),
                  enrichment_suggestions |->
                      dict_get(response, "enrichment_suggestions", PyList(<<>>)),
                  sources |-> sources],
                 posted)

\* a variant without the return for an empty retrieval
generate_answer_without_short_circuit(coll, query, fault, reply) ==
    LET found == search_documents(coll, query, fault)
    IN  IF IsRaise(found) THEN Answered(TRUE, [exception |-> found[2]], <<>>)
        ELSE answer_from(found[2], query, reply)

\* generate_answer from its line 26 on, given what search_documents returned
\* or raised
generate_answer_given(found, query, reply) ==
    IF IsRaise(found) THEN Answered(TRUE, [exception |-> found[2]], <<>>)
    ELSE IF found[2].documents = <<>>
    THEN Answered(FALSE, NoDocumentsResult, <<>>)
    ELSE answer_from(found[2], query, reply)

generate_answer(coll, query, fault, reply) ==
    generate_answer_given(search_documents(coll, query, fault), query, reply)

----------------------------------------------------------------------------
\* The application: one action per request handled or method called.

\* posted: the call's exchanges with the completion endpoint
Call(op, args, raised, ret, posted) ==
    [op |-> op, args |-> args, raised |-> raised, ret |-> ret, posted |-> posted]

\* a variant that opens every instance's client on a directory of its own
DocumentProcessor_init_own_directory(created) ==
    [embedding_model |-> created + 1,
     chroma_client |-> created + 1,
     path |-> <<"./chroma_db", created + 1>>]

\* DocumentProcessor.__init__: every construction loads a SentenceTransformer
\* and opens a PersistentClient on CHROMA_PERSIST_DIRECTORY; created counts the
\* objects of each kind built so far.
CHROMA_PERSIST_DIRECTORY == "./chroma_db"
DocumentProcessor_init(created) ==
    [embedding_model |-> created + 1,
     chroma_client |-> created + 1,
     path |-> CHROMA_PERSIST_DIRECTORY]

\* RAGPipeline.__init__ builds a DocumentProcessor of its own
RAGPipeline_init(created) ==
    [document_processor |-> DocumentProcessor_init(created)]

\* main.py: document_processor = DocumentProcessor(); rag_pipeline = RAGPipeline()
Startup ==
    [document_processor |-> DocumentProcessor_init(0),
     rag_pipeline |-> RAGPipeline_init(1)]

\* self.collection of a DocumentProcessor: the collection "documents" of the
\* directory its client is opened on. Clients of one process opened on the same
\* directory work on the same collection; coll is the collection of the
\* directory the ingestion routes write to.
collection_seen_by(processor, coll) ==
    IF processor.path = components.document_processor.path THEN coll ELSE <<>>

\* no request holds the event loop
NoRequest == 0
MaxRequests == 2
RequestIds == 1..MaxRequests
Idle == [pc |-> "idle"]

Init ==
    /\ collection = <<>>
    /\ disk = {}
    /\ uuid_draws = 0
    /\ last = Call("start", <<>>, FALSE, <<>>, <<>>)
    /\ components = Startup
    /\ loop = NoRequest
    /\ requests = [r \in RequestIds |-> Idle]
    /\ written = [filename \in Filenames |-> <<>>]

Commit(out, op, args) ==
    /\ collection' = out.collection
    /\ disk' = out.disk
    /\ uuid_draws' = out.uuid_draws
    /\ last' = Call(op, args, FALSE, out.ret, <<>>)
    /\ UNCHANGED <<components, loop, requests, written>>

\* POST /upload
\* an environment fault tells requests apart only where the code makes the call
Accepted(file) ==
    suffix(file.filename) \in ALLOWED_EXTENSIONS /\ file.size <= MaxBytes

Upload ==
    \E file \in UploadFiles :
      \E fault \in (IF Accepted(file) THEN IngestFaults ELSE {"none"}) :
        /\ uuid_draws < MaxUuid
        /\ Commit(upload_documents(collection, disk, uuid_draws, file, fault),
                  "upload_documents",
                  [file |-> file, fault |-> fault])

\* DELETE /documents/{document_id}
Delete ==
    \E document_id \in DocumentIds, fault \in DeleteFaults :
        Commit(delete_document(collection, disk, uuid_draws, document_id, fault),
               "delete_document", [document_id |-> document_id, fault |-> fault])

\* GET /documents
ListDocuments ==
    \E fault \in ListFaults :
        Commit(Outcome(collection, disk, uuid_draws, get_all_documents(collection, fault)),
               "get_all_documents", <<>>)

\* GET /stats
Stats ==
    \E fault \in StatsFaults :
        Commit(Outcome(collection, disk, uuid_draws, get_document_stats(collection, fault)),
               "get_document_stats", <<>>)

\* RAGPipeline.generate_answer, as POST /search calls it. The endpoint's reply
\* tells requests apart only where retrieval returns.
Query ==
    \E query \in Queries, fault \in SearchFaults :
      \E reply \in (IF fault = "none" THEN CompletionReplies ELSE {Raise("ConnectError")}) :
        LET answered == generate_answer(
                            collection_seen_by(components.rag_pipeline.document_processor,
                                               collection),
                            query, fault, reply)
        IN  /\ last' = Call("generate_answer",
                            [query |-> query, fault |-> fault, reply |-> reply],
                            answered.raised, answered.ret, answered.posted)
            /\ UNCHANGED <<collection, disk, uuid_draws, components, loop, requests, written>>

Next ==
    \/ Query
    \/ Upload
    \/ Delete
    \/ ListDocuments
    \/ Stats

Spec == Init /\ [][Next]_vars

----------------------------------------------------------------------------
\* The scoring stages of generate_answer on what a store can hand back. The
\* collection of this application is created with cosine distance, and the
\* embeddings above give the distances 0, 1 and 2 only; _calculate_confidence
\* and _prepare_sources take any list of floats, so here they are given
\* distances between and beyond those, in thousandths.

\* most hits one retrieval returns
MaxHits == 2
Distances == {-500, -1, 0, 1000, 2000, 2001, 3000}
DistanceLists == UNION {[1..n -> Distances] : n \in 0..MaxHits}

\* the metadata of the i-th hit: chunk i - 1 of one document of MaxHits chunks
HitMetadata(i) ==
    [filename |-> "a.txt", file_path |-> path_join(UPLOAD_DIRECTORY, "a.txt"),
     document_id |-> 1, chunk_index |-> i - 1, total_chunks |-> MaxHits]

\* what search_documents returns for hits at these distances
SearchResults(distances) ==
    <<"dict",
      [documents |-> [i \in 1..Len(distances) |-> <<"a">>],
       metadatas |-> [i \in 1..Len(distances) |-> HitMetadata(i)],
       distances |-> distances]>>

\* the endpoint times out, refuses, or answers as the prompt asks
ScoringReplies ==
    { Raise("ReadTimeout"),
      Response(500, PyStr(<<"Internal Server Error">>)),
      Response(200, ChatCompletion(JsonText(CompleteAnswer))) }

\* generate_answer, its retrieval having returned hits at the given distances
Retrieved ==
    \E distances \in DistanceLists, reply \in ScoringReplies :
        LET answered == generate_answer_given(SearchResults(distances), <<"a">>, reply)
        IN  /\ last' = Call("generate_answer",
                            [query |-> <<"a">>, fault |-> "none", reply |-> reply,
                             distances |-> distances],
                            answered.raised, answered.ret, answered.posted)
            /\ UNCHANGED <<collection, disk, uuid_draws, components, loop, requests, written>>

\* _calculate_confidence called on a list of distances
Confidence ==
    \E distances \in DistanceLists :
        /\ last' = Call("_calculate_confidence", [distances |-> distances], FALSE,
                        [confidence |-> calculate_confidence(distances)], <<>>)
        /\ UNCHANGED <<collection, disk, uuid_draws, components, loop, requests, written>>

ScoringNext ==
    \/ Retrieved
    \/ Confidence

SpecScoring == Init /\ [][ScoringNext]_vars

----------------------------------------------------------------------------
\* The server: the handlers of several requests in flight on one event loop.
\* Every handler is an "async def" run by the loop's single thread; a handler
\* keeps the thread until it returns or reaches an await that suspends it:
\*   - "await file.read()" of the upload route (main.py:88),
\*   - aiofiles' open and read in _extract_from_text (document_processor.py:88-89).
\* The other awaits call coroutines that never suspend. client.post
\* (rag_pipeline.py:135) is a call of the synchronous httpx.Client: the handler
\* keeps the thread while the endpoint is silent.

\* files of the requests, within the size limit: a text file of MaxTextLen
\* chunks, and files of one chunk of the other kinds
ServerFiles ==
    {file \in UploadFiles :
        /\ file.size = MaxBytes
        /\ file.content = IF file.filename = "a.txt"
                          THEN [i \in 1..MaxTextLen |-> "a"] ELSE <<"a">>}
ServerQueries == {<<"a">>}
\* what the endpoint answers when it answers before the timeout
ServerReplies ==
    { Response(500, PyStr(<<"Internal Server Error">>)),
      Response(200, ChatCompletion(JsonText(CompleteAnswer))),
      Response(200, ChatCompletion(JsonText(PyList(<<>>)))) }

\* the handler of a request that waits on neither file nor endpoint
LoopFree == loop = NoRequest
Returns(r) == requests' = [requests EXCEPT ![r] = Idle]

\* POST /upload, lines 75-88: the extension check, then the await of file.read()
UploadReadOf(r, files) ==
    \E file \in files :
        /\ LoopFree /\ requests[r].pc = "idle" /\ uuid_draws < MaxUuid
        /\ IF suffix(file.filename) \notin ALLOWED_EXTENSIONS
           THEN /\ Commit(upload_documents(collection, disk, uuid_draws, file, "none"),
                          "upload_documents", [file |-> file, fault |-> "none"])
           ELSE /\ requests' = [requests EXCEPT ![r] = [pc |-> "reading", file |-> file]]
                /\ UNCHANGED <<collection, disk, uuid_draws, last, components, loop, written>>

UploadRead(r) == UploadReadOf(r, ServerFiles)

\* the extraction of a .txt or .md file awaits aiofiles; the others are read
\* by plain calls
ExtractionSuspends(file) == suffix(file.filename) \in {".txt", ".md"}

\* POST /upload, lines 89-102 and on into process_and_store_document: the size
\* check and the write of the file, then either the await of aiofiles or, for
\* the other formats, the rest of the handler
UploadSave(r) ==
    /\ LoopFree /\ requests[r].pc = "reading"
    /\ LET file == requests[r].file
       IN  IF ExtractionSuspends(file) /\ file.size <= MaxBytes
           THEN /\ disk' = disk \cup {file.filename}
                /\ written' = [written EXCEPT ![file.filename] = file.content]
                /\ requests' = [requests EXCEPT ![r] = [pc |-> "extracting", file |-> file]]
                /\ UNCHANGED <<collection, uuid_draws, last, components, loop>>
           ELSE \E fault \in IngestFaults :
                /\ collection' = upload_documents(collection, disk, uuid_draws, file, fault).collection
                /\ disk' = upload_documents(collection, disk, uuid_draws, file, fault).disk
                /\ uuid_draws' = upload_documents(collection, disk, uuid_draws, file, fault).uuid_draws
                /\ last' = Call("upload_documents", [file |-> file, fault |-> fault], FALSE,
                                upload_documents(collection, disk, uuid_draws, file, fault).ret, <<>>)
                /\ Returns(r)
                /\ UNCHANGED <<components, loop, written>>

\* process_and_store_document from the return of aiofiles on (lines 103-153),
\* and the return of the route: the text is what the file holds now
UploadStore(r) ==
    /\ LoopFree /\ requests[r].pc = "extracting"
    /\ \E fault \in IngestFaults :
        LET file == requests[r].file
            out == process_and_store_document(collection, disk, uuid_draws,
                       path_join(UPLOAD_DIRECTORY, file.filename), file.filename,
                       written[file.filename], fault)
        IN  /\ collection' = out.collection
            /\ disk' = out.disk
            /\ uuid_draws' = out.uuid_draws
            /\ last' = Call("upload_documents", [file |-> file, fault |-> fault], FALSE,
                            out.ret, <<>>)
            /\ Returns(r)
            /\ UNCHANGED <<components, loop, written>>

\* DELETE /documents/{document_id} and GET /documents: no await suspends them
ServeDelete == LoopFree /\ Delete
ServeList == LoopFree /\ ListDocuments

\* generate_answer up to client.post: retrieval, the return for no hits, the
\* context; with hits the handler enters client.post and keeps the thread
QueryRetrieve(r) ==
    \E query \in ServerQueries, fault \in SearchFaults :
        LET found == search_documents(
                         collection_seen_by(components.rag_pipeline.document_processor,
                                            collection),
                         query, fault)
            answered == generate_answer_given(found, query, Raise("ConnectError"))
        IN  /\ LoopFree /\ requests[r].pc = "idle"
            /\ IF IsRaise(found) \/ found[2].documents = <<>>
               THEN /\ last' = Call("generate_answer",
                                    [query |-> query, fault |-> fault,
                                     reply |-> Raise("ConnectError")],
                                    answered.raised, answered.ret, answered.posted)
                    /\ UNCHANGED <<requests, loop>>
               ELSE /\ requests' = [requests EXCEPT ![r] =
                                       [pc |-> "waiting", query |-> query,
                                        found |-> found[2]]]
                    /\ loop' = r
                    /\ UNCHANGED last
            /\ UNCHANGED <<collection, disk, uuid_draws, components, written>>

\* client.post returns or raises, and generate_answer runs to its end
Completes(r, reply) ==
    LET answered == generate_answer_given(<<"dict", requests[r].found>>,
                                          requests[r].query, reply)
    IN  /\ last' = Call("generate_answer",
                        [query |-> requests[r].query, fault |-> "none", reply |-> reply],
                        answered.raised, answered.ret, answered.posted)
        /\ Returns(r)
        /\ loop' = NoRequest
        /\ UNCHANGED <<collection, disk, uuid_draws, components, written>>

\* the endpoint answers within the timeout
QueryReply(r) ==
    /\ loop = r /\ requests[r].pc = "waiting"
    /\ \E reply \in ServerReplies : Completes(r, reply)

\* the endpoint has been silent for the 60 seconds of httpx.Timeout(60.0):
\* client.post raises httpx.ReadTimeout
QueryTimeout(r) ==
    /\ loop = r /\ requests[r].pc = "waiting"
    /\ Completes(r, Raise("ReadTimeout"))

ServerNext ==
    \/ \E r \in RequestIds : UploadRead(r)
    \/ \E r \in RequestIds : UploadSave(r)
    \/ \E r \in RequestIds : UploadStore(r)
    \/ \E r \in RequestIds : QueryRetrieve(r)
    \/ \E r \in RequestIds : QueryReply(r)
    \/ \E r \in RequestIds : QueryTimeout(r)
    \/ ServeDelete
    \/ ServeList

\* time passes: a call of client.post that gets no answer ends by the timeout
SpecServer ==
    /\ Init
    /\ [][ServerNext]_vars
    /\ \A r \in RequestIds : WF_vars(QueryTimeout(r))

----------------------------------------------------------------------------
\* Properties of the answer pipeline.

IsQuery == last.op = "generate_answer"
\* the call's retrieval stage returned, with at least one hit (TOP_K_DOCUMENTS >= 1,
\* so the store answers with a hit exactly when it holds a chunk)
RetrievedHits == IsQuery /\ last.args.fault = "none" /\ Len(collection) > 0
RetrievedNothing == IsQuery /\ last.args.fault = "none" /\ Len(collection) = 0

QueryResultFields ==
    {"answer", "confidence", "missing_info", "enrichment_suggestions", "sources"}
IsQueryResult == ~last.raised /\ DOMAIN last.ret = QueryResultFields

\* the endpoint answered 200 and the body, or the message content in it, is
\* text that is not JSON
BodyNotJson(reply) ==
    ~IsRaise(reply) /\ reply[2] = 200 /\ reply[3][1] = "str"
ContentNotJson(reply) ==
    /\ ~IsRaise(reply) /\ reply[2] = 200 /\ reply[3][1] = "json"
    /\ ~IsRaise(message_content(reply[3][2]))
    /\ message_content(reply[3][2])[1] = "str"

\* C1: whatever the completion endpoint does (200 with valid JSON, 200 with a
\* malformed body, a non-200 status, a network failure), a generate_answer call
\* whose retrieval returned gives back a Query Result with the five fields and
\* raises nothing.
C1_AlwaysQueryResult ==
    (IsQuery /\ last.args.fault = "none") => IsQueryResult

\* C2: with at least one hit and a non-200 status from the endpoint,
\* generate_answer raises nothing and returns a Query Result whose answer is
\* the diagnostic string carrying the status code and whose missing_info is
\* exactly ["API call failed"].
C2_Non200Degrades ==
    (RetrievedHits /\ ~IsRaise(last.args.reply) /\ last.args.reply[2] # 200) =>
        /\ IsQueryResult
        /\ last.ret.answer[1] = "str"
        /\ Len(last.ret.answer[2]) >= 2
        /\ last.ret.answer[2][1] = "Error calling OpenAI API: "
        /\ last.ret.answer[2][2] = ToString(last.args.reply[2])
        /\ last.ret.missing_info = PyList(<<PyStr(<<"API call failed">>)>>)

C2_Witness ==
    /\ RetrievedHits
    /\ last.args.reply = Response(500, PyStr(<<"Internal Server Error">>))
    /\ IsQueryResult
    /\ last.ret.answer[2][2] = "500"
    /\ last.ret.sources # <<>>

\* C3: with at least one hit, a network error, or a 200 whose body or whose
\* message content is not parseable JSON, is caught: generate_answer returns
\* the degraded Query Result, its answer a diagnostic string and its
\* missing_info exactly ["System error occurred"].
C3_SystemErrorDegrades ==
    (RetrievedHits /\ (\/ IsRaise(last.args.reply)
                       \/ BodyNotJson(last.args.reply)
                       \/ ContentNotJson(last.args.reply))) =>
        /\ IsQueryResult
        /\ last.ret.answer[1] = "str"
        /\ Len(last.ret.answer[2]) >= 2
        /\ last.ret.answer[2][1] = "Error generating response: "
        /\ last.ret.missing_info = PyList(<<PyStr(<<"System error occurred">>)>>)

C3_Witness ==
    /\ RetrievedHits
    /\ ContentNotJson(last.args.reply)
    /\ IsQueryResult
    /\ last.ret.answer[2] = <<"Error generating response: ", "JSONDecodeError">>
    /\ last.ret.sources # <<>>

\* C4: when retrieval yields zero hits, generate_answer returns the fixed
\* result (confidence 0.0, no sources, one canned missing_info entry, two canned
\* enrichment suggestions) and posts nothing to the completion endpoint.
C4_NoHitsShortCircuit ==
    RetrievedNothing =>
        /\ IsQueryResult
        /\ last.ret = NoDocumentsResult
        /\ last.ret.confidence = 0
        /\ last.ret.sources = <<>>
        /\ Len(last.ret.missing_info[2]) = 1
        /\ Len(last.ret.enrichment_suggestions[2]) = 2
        /\ last.posted = <<>>

\* a store that held a document, emptied by a delete (which removed the file
\* too), then queried
C4_Witness ==
    /\ RetrievedNothing
    /\ uuid_draws > 0
    /\ disk = {}
    /\ last.ret = NoDocumentsResult
    /\ last.posted = <<>>

----------------------------------------------------------------------------
\* Properties of ingestion, listing and deletion.

IsUpload == last.op = "upload_documents"
IsDelete == last.op = "delete_document"

\* the positions in coll of the chunks stored under document_id
ChunksOf(coll, document_id) ==
    {i \in 1..Len(coll) : coll[i].metadata.document_id = document_id}
StoredDocumentIds(coll) ==
    {coll[i].metadata.document_id : i \in 1..Len(coll)}
Listed(coll) == get_all_documents(coll, "none").documents

\* the file passes the route's checks and its ingestion meets one of the
\* failures: extraction, blank text, no chunk, embedding, store write
IngestionFails(file, fault) ==
    \/ fault \in {"extract", "embed", "add"}
    \/ strip(file.content) = <<>>
    \/ chunk_text(file.content) = <<>>

\* the step of C5
C5_FailedIngestion ==
    (/\ last'.op = "upload_documents"
     /\ Accepted(last'.args.file)
     /\ IngestionFails(last'.args.file, last'.args.fault)) =>
        /\ last'.ret.status = "error"
        /\ collection' = collection

\* C5: ingestion is all-or-nothing: when extraction fails, the text is blank
\* after trimming, no chunk results, embedding fails or the store write fails,
\* process_and_store_document returns status "error" and the store holds
\* exactly the chunks it held before the call.
C5_IngestAllOrNothing == [][C5_FailedIngestion]_vars

\* an embedding failure on a multi-chunk document, the store holding another one
C5_Witness ==
    /\ IsUpload
    /\ Accepted(last.args.file)
    /\ last.args.fault = "embed"
    /\ Len(chunk_text(last.args.file.content)) > 1
    /\ last.ret.status = "error"
    /\ Len(collection) > 0

\* the step of C6
C6_SuccessfulIngestion ==
    (last'.op = "upload_documents" /\ last'.ret.status = "success") =>
        LET before == Listed(collection)
            after == Listed(collection')
            new == {i \in 1..Len(after) :
                        \A j \in 1..Len(before) :
                            after[i].document_id # before[j].document_id}
            made == Len(chunk_text(last'.args.file.content))
        IN  /\ Cardinality(new) = 1
            /\ \A i \in new :
                /\ after[i].document_id = last'.ret.document_id
                /\ Len(after[i].chunks) = made
                /\ after[i].total_chunks = made
            /\ Len(after) = Len(before) + 1
            /\ \A j \in 1..Len(before) : \E i \in 1..Len(after) : after[i] = before[j]

\* C6: after a successful process_and_store_document, get_all_documents lists
\* exactly one document it did not list before, with as many chunks as the
\* chunker makes of the text, and lists every earlier document unchanged.
C6_IngestListsOneNewDocument == [][C6_SuccessfulIngestion]_vars

C6_Witness ==
    /\ IsUpload
    /\ last.ret.status = "success"
    /\ last.ret.total_chunks = 2
    /\ Len(Listed(collection)) = 2

\* the step of C7
C7_DeleteOfUnknownId ==
    (/\ last'.op = "delete_document"
     /\ last'.args.fault # "get"
     /\ ChunksOf(collection, last'.args.document_id) = {}) =>
        /\ last'.ret.status = "error"
        /\ last'.ret.error = <<"Document not found">>
        /\ collection' = collection
        /\ Len(collection') = Len(collection)
        /\ disk' = disk

\* C7: delete_document on an id without chunks in the store returns the error
\* "Document not found", leaves the store's chunks as they are and removes no
\* file.
C7_DeleteUnknownChangesNothing == [][C7_DeleteOfUnknownId]_vars

C7_Witness ==
    /\ IsDelete
    /\ last.ret.status = "error"
    /\ last.ret.error = <<"Document not found">>
    /\ ChunksOf(collection, last.args.document_id) = {}
    /\ Len(collection) > 0
    /\ disk # {}

\* the step of C8
C8_DeleteOfStoredId ==
    (/\ last'.op = "delete_document"
     /\ last'.args.fault \in {"none", "remove"}
     /\ ChunksOf(collection, last'.args.document_id) # {}) =>
        LET document_id == last'.args.document_id
            n == Cardinality(ChunksOf(collection, document_id))
            after == Listed(collection')
        IN  /\ last'.ret.status = "success"
            /\ last'.ret.deleted_chunks = n
            /\ collection_count(collection') = collection_count(collection) - n
            /\ \A i \in 1..Len(after) : after[i].document_id # document_id
            /\ \A other \in StoredDocumentIds(collection) \ {document_id} :
                select(collection', other) = select(collection, other)

\* C8: delete_document on an id present in the store lowers the chunk count by
\* that document's chunk count, reports it as deleted_chunks, takes the
\* document out of get_all_documents and leaves every other document's chunks
\* as they are.
C8_DeleteRemovesExactlyTheDocument == [][C8_DeleteOfStoredId]_vars

\* a two-chunk document deleted, a document of the same filename staying
C8_Witness ==
    /\ IsDelete
    /\ last.ret.status = "success"
    /\ last.ret.deleted_chunks = 2
    /\ \E i \in 1..Len(collection) :
        collection[i].metadata.filename = last.ret.filename

\* C9: in every reachable state the chunks stored under a document id carry
\* the chunk indices 0..total_chunks-1, each once, and total_chunks is the
\* number of chunks stored for the document.
C9_ContiguousChunkIndices ==
    \A document_id \in StoredDocumentIds(collection) :
        LET stored == ChunksOf(collection, document_id)
            n == Cardinality(stored)
        IN  /\ {collection[i].metadata.chunk_index : i \in stored} = 0..(n - 1)
            /\ \A i \in stored : collection[i].metadata.total_chunks = n

\* after a delete, a two-chunk document stays in the store
C9_Witness ==
    /\ IsDelete
    /\ last.ret.status = "success"
    /\ \E document_id \in StoredDocumentIds(collection) :
        Cardinality(ChunksOf(collection, document_id)) = 2

\* C10: the chunk ids an ingest writes are {documentId}_{i} for i in
\* 0..totalChunks-1 and are the ids stored under that document id; no two
\* ingests, also of identical content under different filenames, share a chunk
\* id or a document id.
C10_ChunkIdsPerIngest ==
    /\ \A i \in 1..Len(collection) :
        collection[i].id =
            <<collection[i].metadata.document_id, collection[i].metadata.chunk_index>>
    /\ \A i, j \in 1..Len(collection) :
        \/ i = j
        \/ /\ collection[i].id # collection[j].id
           /\ collection[i].metadata.document_id = collection[j].metadata.document_id
                => /\ collection[i].metadata.filename = collection[j].metadata.filename
                   /\ collection[i].metadata.chunk_index # collection[j].metadata.chunk_index
    /\ (IsUpload /\ last.ret.status = "success") =>
        LET stored == ChunksOf(collection, last.ret.document_id)
        IN  /\ {collection[i].id : i \in stored} =
                   {<<last.ret.document_id, k>> : k \in 0..(last.ret.total_chunks - 1)}
            /\ Cardinality(stored) = last.ret.total_chunks
            /\ \A i \in stored : collection[i].metadata.filename = last.ret.filename

\* two stored documents of the same content, uploaded under different filenames
C10_Witness ==
    /\ IsUpload
    /\ last.ret.status = "success"
    /\ \E i, j \in 1..Len(collection) :
        /\ collection[i].metadata.document_id # collection[j].metadata.document_id
        /\ collection[i].metadata.filename # collection[j].metadata.filename
        /\ collection[i].metadata.total_chunks = collection[j].metadata.total_chunks
        /\ collection[i].metadata.total_chunks = 2

----------------------------------------------------------------------------
\* Properties of confidence and source attribution (under SpecScoring).

Abs(n) == IF n < 0 THEN -n ELSE n
IsConfidence == last.op = "_calculate_confidence"
\* n times the mean of the distances is their sum; n times the value
\* 1 - mean / 2, in units of half a thousandth, clamped to [0, 1]
ClampedTwice(distances) ==
    Max(0, Min(2000 * Len(distances), 2000 * Len(distances) - sum(distances)))

\* C11: the confidence of every Query Result generate_answer returns (normal,
\* degraded or short-circuit) and every value _calculate_confidence returns
\* lies in [0.0, 1.0], also for distances below 0 or above 2.
C11_ConfidenceInUnitInterval ==
    /\ (IsQuery /\ ~last.raised) =>
           (last.ret.confidence >= 0 /\ last.ret.confidence <= 1000)
    /\ IsConfidence =>
           (last.ret.confidence >= 0 /\ last.ret.confidence <= 1000)

\* a degraded result whose hits lie beyond distance 2 on average
C11_Witness ==
    /\ IsQuery /\ ~last.raised
    /\ last.args.distances = <<3000, 2001>>
    /\ last.args.reply = Raise("ReadTimeout")
    /\ last.ret.confidence = 0
    /\ Len(last.ret.sources) = 2

\* C12: for a non-empty list of distances _calculate_confidence returns
\* clamp(1 - mean/2, 0, 1) rounded to 3 decimals (the result is within half a
\* thousandth of the clamped value); [0.0, 0.0] gives 1.0, [2.0, 2.0] gives
\* 0.0 and [1.0] gives 0.5.
C12_ConfidenceFormula ==
    (IsConfidence /\ last.args.distances # <<>>) =>
        LET distances == last.args.distances
            n == Len(distances)
        IN  /\ 2 * Abs(2 * n * last.ret.confidence - ClampedTwice(distances)) <= 2 * n
            /\ distances = <<0, 0>> => last.ret.confidence = 1000
            /\ distances = <<2000, 2000>> => last.ret.confidence = 0
            /\ distances = <<1000>> => last.ret.confidence = 500

\* two hits whose mean distance is halfway: 1 - 0.75 = 0.25
C12_Witness ==
    /\ IsConfidence
    /\ last.args.distances = <<1000, 2000>>
    /\ last.ret.confidence = 250

\* the entries of sources match the hits one to one, in order, and each score
\* is 1 - distance/2 to within half a thousandth
SourcesFollowHits(distances, sources) ==
    /\ Len(sources) = Len(distances)
    /\ \A i \in 1..Len(distances) :
         /\ sources[i].filename = HitMetadata(i).filename
         /\ sources[i].chunk_index = HitMetadata(i).chunk_index
         /\ sources[i].total_chunks = HitMetadata(i).total_chunks
         /\ Abs(2 * sources[i].relevance_score - (2000 - distances[i])) <= 1

\* C13 as stated: sources has one entry per retrieved hit, in retrieval order,
\* with the hit's filename, chunk index and total chunks and a relevance score
\* of round(1 - distance/2, 3), not clamped, so that every distance above 2
\* yields a negative score and every distance below 0 a score above 1.
C13_SourcesPerHitUnclamped ==
    (IsQuery /\ ~last.raised /\ last.args.distances # <<>>) =>
        LET distances == last.args.distances
            sources == last.ret.sources
        IN  /\ SourcesFollowHits(distances, sources)
            /\ \A i \in 1..Len(distances) :
                 /\ distances[i] > 2000 => sources[i].relevance_score < 0
                 /\ distances[i] < 0 => sources[i].relevance_score > 1000

\* C13, amended: sources has one entry per retrieved hit, in retrieval order,
\* with the hit's filename, chunk index and total chunks and a relevance score
\* of round(1 - distance/2, 3), not clamped: a distance above 2 yields a score
\* that is never positive, and negative once the distance exceeds 2.001; a
\* distance below 0 yields a score of at least 1, and above 1 once the
\* distance is below -0.001.
C13_SourcesPerHitRounded ==
    (IsQuery /\ ~last.raised /\ last.args.distances # <<>>) =>
        LET distances == last.args.distances
            sources == last.ret.sources
        IN  /\ SourcesFollowHits(distances, sources)
            /\ \A i \in 1..Len(distances) :
                 /\ distances[i] > 2000 => sources[i].relevance_score <= 0
                 /\ distances[i] > 2001 => sources[i].relevance_score < 0
                 /\ distances[i] < 0 => sources[i].relevance_score >= 1000
                 /\ distances[i] < -1 => sources[i].relevance_score > 1000

C13_Witness ==
    /\ IsQuery /\ ~last.raised
    /\ last.args.distances = <<-500, 3000>>
    /\ last.ret.sources[1].relevance_score = 1250
    /\ last.ret.sources[2].relevance_score = -500
    /\ last.ret.sources[1].chunk_index = 0
    /\ last.ret.sources[2].chunk_index = 1

----------------------------------------------------------------------------
\* Order of the stages of generate_answer (under Spec).

\* what the retrieval of the last generate_answer call returned: Query leaves
\* the store as it is
RetrievedByLast == search_documents(collection, last.args.query, "none")[2]

\* C14: within one generate_answer call the completion request is issued only
\* after retrieval has returned at least one hit, its context built from those
\* hits, and at most one request is issued per call: a failed attempt is not
\* repeated.
C14_OneCompletionAfterRetrieval ==
    IsQuery =>
        /\ Len(last.posted) <= 1
        /\ last.posted # <<>> =>
               /\ RetrievedHits
               /\ RetrievedByLast.documents # <<>>
               /\ last.posted[1].context = prepare_context(RetrievedByLast)
               /\ last.posted[1].query = last.args.query
        /\ RetrievedHits => Len(last.posted) = 1

\* a call whose only attempt failed on the network
C14_Witness ==
    /\ RetrievedHits
    /\ last.args.reply = Raise("ConnectError")
    /\ Len(last.posted) = 1
    /\ Len(last.posted[1].context) = TOP_K_DOCUMENTS
    /\ IsQueryResult

----------------------------------------------------------------------------
\* Error handling of the entry points (under Spec).

\* the entry points other than generate_answer return a dict with a status
StatusResults ==
    last.op \in {"upload_documents", "delete_document", "get_all_documents"} =>
        (~last.raised /\ "status" \in DOMAIN last.ret)

\* C16: every pipeline entry point returns a result object instead of
\* raising: generate_answer returns a Query Result also when the retrieval
\* stage fails (the query embedding or the store query raises), and
\* process_and_store_document, delete_document and get_all_documents return a
\* status result for every failure.
C16_EntryPointsReturnResults ==
    /\ (IsQuery /\ last.args.fault # "none") => IsQueryResult
    /\ StatusResults

\* the message content of a 200 reply, parsed, when it parses as JSON
ParsedContent(reply) == json_loads(message_content(reply[3][2]))
ContentIsJson(reply) ==
    /\ ~IsRaise(reply) /\ reply[2] = 200 /\ reply[3][1] = "json"
    /\ ~IsRaise(message_content(reply[3][2]))
    /\ ~IsRaise(ParsedContent(reply))

IsStr(v) == v[1] = "str"
IsListOfStr(v) == v[1] = "list" /\ \A i \in 1..Len(v[2]) : IsStr(v[2][i])
\* the value is not an object, or answer is not a string, or missing_info or
\* enrichment_suggestions is not an array of strings
SchemaInvalid(parsed) ==
    \/ parsed[1] # "dict"
    \/ /\ parsed[1] = "dict"
       /\ \/ ("answer" \in DOMAIN parsed[2] /\ ~IsStr(parsed[2]["answer"]))
          \/ ("missing_info" \in DOMAIN parsed[2]
                 /\ ~IsListOfStr(parsed[2]["missing_info"]))
          \/ ("enrichment_suggestions" \in DOMAIN parsed[2]
                 /\ ~IsListOfStr(parsed[2]["enrichment_suggestions"]))

\* C17: a 200 reply whose content parses as JSON but does not match the schema
\* is treated as a completion parse error: generate_answer returns the degraded
\* Query Result (answer a string, missing_info ["System error occurred"]); it
\* neither raises nor passes the parsed values through.
C17_SchemaInvalidDegrades ==
    (RetrievedHits /\ ContentIsJson(last.args.reply)
       /\ SchemaInvalid(ParsedContent(last.args.reply))) =>
        /\ IsQueryResult
        /\ IsStr(last.ret.answer)
        /\ last.ret.missing_info = PyList(<<PyStr(<<"System error occurred">>)>>)
        /\ IsListOfStr(last.ret.enrichment_suggestions)

----------------------------------------------------------------------------
\* The objects built at startup (under Spec).

\* the DocumentProcessor POST /upload, DELETE and GET /documents go through,
\* and the one generate_answer searches with
IngestionProcessor == components.document_processor
QueryProcessor == components.rag_pipeline.document_processor

\* C19: the Vector Store handle and the Embedder are process-wide singletons:
\* startup creates exactly one of each, and the ingestion path and the query
\* path use that same instance.
C19_ProcessWideSingletons ==
    /\ IngestionProcessor.embedding_model = QueryProcessor.embedding_model
    /\ IngestionProcessor.chroma_client = QueryProcessor.chroma_client
    /\ Cardinality({IngestionProcessor.embedding_model,
                     QueryProcessor.embedding_model}) = 1
    /\ Cardinality({IngestionProcessor.chroma_client,
                     QueryProcessor.chroma_client}) = 1

----------------------------------------------------------------------------
\* Properties of requests in flight together (under SpecServer).

Waiting(r) == requests[r].pc = "waiting"

\* a generate_answer call that waited on the endpoint for the whole timeout
\* ends with the degraded Query Result
TimeoutDegrades ==
    (IsQuery /\ last.args.reply = Raise("ReadTimeout") /\ last.posted # <<>>) =>
        /\ IsQueryResult
        /\ last.ret.missing_info = PyList(<<PyStr(<<"System error occurred">>)>>)

\* no call waits on the endpoint for ever
CompletionWaitEnds == \A r \in RequestIds : Waiting(r) ~> ~Waiting(r)

\* C15: a completion call that times out resolves to the degraded result, and
\* every generate_answer call that has posted to the endpoint ends by
\* returning a Query Result.
C15_PostedCallsReturnQueryResult ==
    /\ TimeoutDegrades
    /\ (IsQuery /\ last.posted # <<>>) => IsQueryResult

\* the store holds every document with all of its chunks or with none
WholeDocuments(coll) ==
    \A i \in 1..Len(coll) :
        Cardinality(ChunksOf(coll, coll[i].metadata.document_id))
            = coll[i].metadata.total_chunks

\* C18: whatever the interleaving of the uploads, deletes, queries and
\* listings of different requests, a reader never sees a document with some
\* but not all of its chunks: not a listing in what it returns, not a query in
\* the store it retrieved its hits from, and no state between two handler
\* steps holds such a document.
C18_ReadersSeeWholeDocuments ==
    /\ (last.op = "get_all_documents" /\ last.ret.status = "success") =>
           \A i \in 1..Len(last.ret.documents) :
               Len(last.ret.documents[i].chunks) = last.ret.documents[i].total_chunks
    /\ \A r \in RequestIds : Waiting(r) =>
           \A i \in 1..Len(requests[r].found.metadatas) :
               Cardinality(ChunksOf(collection, requests[r].found.metadatas[i].document_id))
                   = requests[r].found.metadatas[i].total_chunks
    /\ WholeDocuments(collection)

\* a listing that returned a document of several chunks while an upload is
\* suspended in its extraction
C18_Witness ==
    /\ last.op = "get_all_documents" /\ last.ret.status = "success"
    /\ \E i \in 1..Len(last.ret.documents) : Len(last.ret.documents[i].chunks) >= 2
    /\ \E r \in RequestIds : requests[r].pc = "extracting"
    /\ uuid_draws >= 1

\* C20: the call to the completion endpoint is a suspension point: while one
\* request waits for the endpoint, the handlers of the other requests, those
\* suspended and those arriving, can be run.
C20_OthersRunDuringCompletion ==
    \A r \in RequestIds : Waiting(r) =>
        /\ ENABLED ServeList
        /\ \A q \in RequestIds \ {r} :
              /\ requests[q].pc = "reading" => ENABLED UploadSave(q)
              /\ requests[q].pc = "extracting" => ENABLED UploadStore(q)
              /\ requests[q].pc = "idle" => ENABLED QueryRetrieve(q)

----------------------------------------------------------------------------
\* Properties of deletion, listing and the context (C21..C23).

\* the step of C21
C21_DeleteOfStoredIdWithFailure ==
    (/\ last'.op = "delete_document"
     /\ ChunksOf(collection, last'.args.document_id) # {}) =>
        LET document_id == last'.args.document_id
        IN  /\ last'.args.fault = "delete" =>
                /\ last'.ret.status = "error"
                /\ collection' = collection
                /\ disk' = disk
            /\ last'.args.fault = "remove" =>
                /\ last'.ret.status = "success"
                /\ ~last'.raised
                /\ ChunksOf(collection', document_id) = {}
                /\ disk' = disk

\* C21: when delete_document finds chunks for the id, the store deletion comes
\* first and the removal of the file after it: a store deletion that fails
\* leaves the file in place, and a file removal that fails leaves the chunks
\* deleted and the file where it was, and the call still returns status
\* "success".
C21_StoreDeletionThenFileRemoval == [][C21_DeleteOfStoredIdWithFailure]_vars

\* a delete whose file removal failed: success, the chunks gone, the file there
C21_Witness ==
    /\ IsDelete
    /\ last.args.fault = "remove"
    /\ last.ret.status = "success"
    /\ last.ret.deleted_chunks > 0
    /\ ChunksOf(collection, last.args.document_id) = {}
    /\ last.ret.filename \in disk

IsListing == last.op = "get_all_documents"

\* C22: a successful get_all_documents returns every stored document id exactly
\* once, in ascending order of filename, each with a chunk list that has one
\* entry per chunk stored under that id, carrying that chunk's index.
C22_ListingGroupsAndSorts ==
    (IsListing /\ last.ret.status = "success") =>
        LET documents == last.ret.documents
        IN  /\ {documents[i].document_id : i \in 1..Len(documents)}
                   = StoredDocumentIds(collection)
            /\ \A i, j \in 1..Len(documents) :
                   i # j => documents[i].document_id # documents[j].document_id
            /\ \A i, j \in 1..Len(documents) :
                   i < j => StrOrd(documents[i].filename) <= StrOrd(documents[j].filename)
            /\ \A i \in 1..Len(documents) :
                   LET stored == ChunksOf(collection, documents[i].document_id)
                       chunks == documents[i].chunks
                   IN  /\ Len(chunks) = Cardinality(stored)
                       /\ \A c \in stored :
                              collection[c].metadata.filename = documents[i].filename
                       /\ {chunks[k].chunk_index : k \in 1..Len(chunks)}
                              = {collection[c].metadata.chunk_index : c \in stored}

\* a listing of two documents that the sort put in the other order than they
\* were stored in, one of them with two chunks
C22_Witness ==
    /\ IsListing
    /\ last.ret.status = "success"
    /\ Len(last.ret.documents) = 2
    /\ last.ret.documents[1].document_id > last.ret.documents[2].document_id
    /\ StrOrd(last.ret.documents[1].filename) < StrOrd(last.ret.documents[2].filename)
    /\ Len(last.ret.documents[1].chunks) = 2

\* C23: the context of a completion request has exactly one block per hit the
\* retrieval returned, the i-th block carrying the i-th hit's filename and its
\* whole text: hits are neither dropped, merged nor re-ordered.
C23_ContextOneBlockPerHit ==
    (IsQuery /\ last.posted # <<>>) =>
        LET context == last.posted[1].context
            hits == RetrievedByLast
        IN  /\ Len(context) = Len(hits.documents)
            /\ \A i \in 1..Len(context) :
                   /\ context[i][2] = hits.metadatas[i].filename
                   /\ context[i][4] = hits.documents[i]
                   /\ Len(context[i]) = 5

\* a request whose two hits have the same filename and the same text, both sent
C23_Witness ==
    /\ IsQuery
    /\ last.posted # <<>>
    /\ Len(last.posted[1].context) = 2
    /\ last.posted[1].context[1] = last.posted[1].context[2]
    /\ RetrievedByLast.metadatas[1].chunk_index # RetrievedByLast.metadatas[2].chunk_index

----------------------------------------------------------------------------
\* Enrichment: RAGPipeline.suggest_auto_enrichment and
\* AutoEnrichment.auto_enrich_knowledge_base (SpecEnrichment).

\* most topics one missing_info list names
MaxTopics == 2
Topics == {"Product details", "Basic company information"}
MissingInfoLists == UNION {[1..n -> Topics] : n \in 0..MaxTopics}

\* a variant that makes one suggestion per distinct topic
RECURSIVE suggest_auto_enrichment_distinct_topics(_, _)
suggest_auto_enrichment_distinct_topics(missing_info, query) ==
    IF missing_info = <<>> THEN <<>>
    ELSE
    LET front == suggest_auto_enrichment_distinct_topics(
                     SubSeq(missing_info, 1, Len(missing_info) - 1), query)
        info == missing_info[Len(missing_info)]
    IN  IF \E i \in 1..Len(front) : front[i].missing_topic = info THEN front
        ELSE Append(front,
                 [missing_topic |-> info,
                  suggested_sources |->
                      << <<"Search for '", info, "' in academic papers">>,
                         <<"Look up '", info, "' in industry documentation">>,
                         <<"Find recent articles about '", info, "'">> >>,
                  search_queries |->
                      << <<info, " ", query>>,
                         <<info, " best practices">>,
                         <<info, " latest research">> >>])

\* RAGPipeline.suggest_auto_enrichment: the loop over missing_info
RECURSIVE suggest_auto_enrichment(_, _)
suggest_auto_enrichment(missing_info, query) ==
    IF missing_info = <<>> THEN <<>>
    ELSE
    LET info == missing_info[Len(missing_info)]
    IN  Append(suggest_auto_enrichment(SubSeq(missing_info, 1, Len(missing_info) - 1),
                                       query),
            [missing_topic |-> info,
             suggested_sources |->
                 << <<"Search for '", info, "' in academic papers">>,
                    <<"Look up '", info, "' in industry documentation">>,
                    <<"Find recent articles about '", info, "'">> >>,
             search_queries |->
                 << <<info, " ", query>>,
                    <<info, " best practices">>,
                    <<info, " latest research">> >>])

\* rag_pipeline.suggest_auto_enrichment(missing_info, query), as POST /search
\* calls it for a non-empty missing_info
SuggestAutoEnrichment ==
    \E missing_info \in MissingInfoLists, query \in Queries :
        /\ last' = Call("suggest_auto_enrichment",
                        [missing_info |-> missing_info, query |-> query], FALSE,
                        [suggestions |-> suggest_auto_enrichment(missing_info, query)],
                        <<>>)
        /\ UNCHANGED <<collection, disk, uuid_draws, components, loop, requests, written>>

\* What the completion endpoint can answer to the enrichment POST: text is the
\* generated content, letter by letter.
EnrichmentTexts == {<<>>, [i \in 1..MaxTextLen |-> "a"]}
EnrichmentReplies ==
    { Raise("ConnectError"),
      Response(500, PyStr(<<"Internal Server Error">>)),
      Response(429, JsonText(PyDict("error" :> PyStr(<<"rate limited">>)))),
      Response(200, JsonText(PyDict("error" :> PyStr(<<"filtered">>)))) }
    \cup {Response(200, ChatCompletion(PyStr(text))) : text \in EnrichmentTexts}

\* What the environment does to the file write and the ingestion that follow a
\* successful generation: as for an upload, or open(temp_filepath, 'w') raises.
EnrichFaults == IngestFaults \cup {"write"}

\* AutoEnrichment.generate_enrichment_content, given the endpoint's reply:
\* response.json() is evaluated for the log line before the status is looked at
generate_enrichment_content(user_query, reply) ==
    IF IsRaise(reply)
    THEN [query |-> user_query, status |-> "error", error |-> <<reply[2]>>]
    ELSE
    LET result == json_loads(reply[3])
        content == message_content(result)
    IN  IF IsRaise(result)
        THEN [query |-> user_query, status |-> "error", error |-> <<result[2]>>]
        ELSE IF reply[2] # 200
        THEN [query |-> user_query, status |-> "error",
              error |-> <<"OpenAI API error: ", ToString(reply[2])>>]
        ELSE IF IsRaise(content)
        THEN [query |-> user_query, status |-> "error", error |-> <<content[2]>>]
        ELSE [query |-> user_query, status |-> "success", content |-> content[2],
              source |-> "OpenAI Knowledge Generation"]

\* _create_short_filename: the queries of the model are one word of at most two
\* letters, which the filter len(word) > 2 drops, so the name is the fallback
\* user_query.replace(' ', '')[:8].lower()
create_short_filename(user_query) ==
    SubSeq(user_query, 1, Min(8, Len(user_query)))

\* f"auto_enriched_{short_query}.txt"
temp_filename_of(short_query) ==
    CASE short_query = <<"a">> -> "auto_enriched_a.txt"
      [] short_query = <<"a", "a">> -> "auto_enriched_aa.txt"

\* the f-string around enrichment_data['content']: the text of the template,
\* standing as one letter, then the generated content
enriched_content_of(user_query, content) == <<"a">> \o content

\* a variant that writes and ingests whatever the generation returned, its
\* error message where it failed
auto_enrich_knowledge_base_whatever_generated(coll, dsk, draws, user_query, reply, fault) ==
    LET enrichment_data == generate_enrichment_content(user_query, reply)
        temp_filename == temp_filename_of(create_short_filename(user_query))
        temp_filepath == <<"./uploads", temp_filename>>
        content == IF enrichment_data.status = "success" THEN enrichment_data.content
                   ELSE <<>>
        out == process_and_store_document(coll, dsk \cup {temp_filename}, draws,
                   temp_filepath, temp_filename,
                   enriched_content_of(user_query, content), fault)
    IN  IF fault = "write"
        THEN Outcome(coll, dsk, draws, [status |-> "error", error |-> <<"OSError">>])
        ELSE IF out.ret.status = "success"
        THEN Outcome(out.collection, out.disk, out.uuid_draws,
                 [status |-> "success", filename |-> temp_filename,
                  chunks_added |-> out.ret.total_chunks, query |-> user_query,
                  content_length |-> Len(content)])
        ELSE Outcome(out.collection, out.disk, out.uuid_draws,
                 [status |-> "error",
                  error |-> <<"Failed to store enrichment: ", out.ret.error>>])

\* AutoEnrichment.auto_enrich_knowledge_base(user_query, document_processor),
\* given the endpoint's reply
auto_enrich_knowledge_base(coll, dsk, draws, user_query, reply, fault) ==
    LET enrichment_data == generate_enrichment_content(user_query, reply)
    IN  IF enrichment_data.status # "success"
        THEN Outcome(coll, dsk, draws,
                 [status |-> "error", error |-> enrichment_data.error])
        ELSE
        LET short_query == create_short_filename(user_query)
            temp_filename == temp_filename_of(short_query)
            temp_filepath == <<"./uploads", temp_filename>>
            enriched_content == enriched_content_of(user_query, enrichment_data.content)
            out == process_and_store_document(coll, dsk \cup {temp_filename}, draws,
                       temp_filepath, temp_filename, enriched_content, fault)
        IN  IF fault = "write"
            THEN Outcome(coll, dsk, draws, [status |-> "error", error |-> <<"OSError">>])
            ELSE IF out.ret.status = "success"
            THEN Outcome(out.collection, out.disk, out.uuid_draws,
                     [status |-> "success", filename |-> temp_filename,
                      chunks_added |-> out.ret.total_chunks, query |-> user_query,
                      content_length |-> Len(enrichment_data.content)])
            ELSE Outcome(out.collection, out.disk, out.uuid_draws,
                     [status |-> "error",
                      error |-> <<"Failed to store enrichment: ", out.ret.error>>])

\* the generation returns status "success" for this reply
Generates(reply) ==
    generate_enrichment_content(<<"a">>, reply).status = "success"

\* POST /auto-enrich
\* a fault of the write or the ingestion tells requests apart only where the
\* generation succeeded
AutoEnrich ==
    \E user_query \in Queries, reply \in EnrichmentReplies :
      \E fault \in (IF Generates(reply) THEN EnrichFaults ELSE {"none"}) :
        /\ uuid_draws < MaxUuid
        /\ Commit(auto_enrich_knowledge_base(collection, disk, uuid_draws,
                                             user_query, reply, fault),
                  "auto_enrich_knowledge_base",
                  [user_query |-> user_query, reply |-> reply, fault |-> fault])

EnrichmentNext ==
    \/ AutoEnrich
    \/ SuggestAutoEnrichment
    \/ Delete
    \/ ListDocuments

SpecEnrichment == Init /\ [][EnrichmentNext]_vars

----------------------------------------------------------------------------
\* Properties of the enrichment (under SpecEnrichment).

\* the step of C24
C24_SuggestionStep ==
    last'.op = "suggest_auto_enrichment" =>
        LET missing_info == last'.args.missing_info
            suggestions == last'.ret.suggestions
        IN  /\ collection' = collection /\ disk' = disk /\ uuid_draws' = uuid_draws
            /\ last'.posted = <<>>
            /\ ~last'.raised
            /\ Len(suggestions) = Len(missing_info)
            /\ missing_info = <<>> => suggestions = <<>>
            /\ \A i \in 1..Len(suggestions) :
                   /\ suggestions[i].missing_topic = missing_info[i]
                   /\ Len(suggestions[i].suggested_sources) = 3
                   /\ Len(suggestions[i].search_queries) = 3
                   /\ \A k \in 1..3 :
                          /\ suggestions[i].suggested_sources[k][2] = missing_info[i]
                          /\ suggestions[i].search_queries[k][1] = missing_info[i]
                   /\ suggestions[i].search_queries[1][3] = last'.args.query

\* C24: suggest_auto_enrichment posts nothing to the endpoint and leaves the
\* store, the upload directory and the id source as they are; it returns one
\* suggestion per element of missing_info, in input order, each naming that
\* topic with three suggested-source strings and three search-query strings
\* built from it, and the empty list for an empty missing_info.
C24_SuggestionsPerTopic == [][C24_SuggestionStep]_vars

\* two suggestions for a missing_info that names one topic twice, made while
\* the store holds chunks
C24_Witness ==
    /\ last.op = "suggest_auto_enrichment"
    /\ Len(last.args.missing_info) = 2
    /\ last.args.missing_info[1] = last.args.missing_info[2]
    /\ Len(last.ret.suggestions) = 2
    /\ Len(collection) > 0

\* the generation of the enrichment content fails: the POST raises, the status
\* is not 200, or the reply cannot be read
GenerationFails(reply) ==
    \/ IsRaise(reply)
    \/ reply[2] # 200
    \/ IsRaise(message_content(json_loads(reply[3])))

\* the step of C25
C25_EnrichmentStep ==
    last'.op = "auto_enrich_knowledge_base" =>
        LET new == StoredDocumentIds(collection') \ StoredDocumentIds(collection)
        IN  /\ GenerationFails(last'.args.reply) =>
                /\ last'.ret.status = "error"
                /\ disk' = disk
                /\ collection' = collection
            /\ last'.ret.status # "success" => collection' = collection
            /\ last'.ret.status = "success" =>
                /\ SubSeq(collection', 1, Len(collection)) = collection
                /\ Cardinality(new) = 1
                /\ Len(Listed(collection')) = Len(Listed(collection)) + 1
                /\ last'.ret.filename
                       = temp_filename_of(create_short_filename(last'.args.user_query))
                /\ last'.ret.filename \in disk'
                /\ \A d \in new :
                       /\ \A c \in ChunksOf(collection', d) :
                              collection'[c].metadata.filename = last'.ret.filename
                       /\ last'.ret.chunks_added = Cardinality(ChunksOf(collection', d))
                       /\ ChunksOf(collection', d) = (Len(collection) + 1)..Len(collection')

\* C25: auto_enrich_knowledge_base changes the stored chunks only when it
\* returns status "success". When the generation fails it returns status
\* "error", writes no file and adds no chunk; when it succeeds and the ingestion
\* succeeds, the store gains the chunks of exactly one new document, named
\* auto_enriched_<short>.txt, and chunks_added is the number of those chunks.
C25_EnrichmentOnlyOnSuccess == [][C25_EnrichmentStep]_vars

\* an enrichment that added a document of more than one chunk next to a
\* document of an earlier enrichment
C25_Witness ==
    /\ last.op = "auto_enrich_knowledge_base"
    /\ last.ret.status = "success"
    /\ last.ret.chunks_added > 1
    /\ Len(collection) > last.ret.chunks_added

----------------------------------------------------------------------------
\* Files of the upload directory and the documents that name them (under Spec).

\* C26: in every reachable state each document get_all_documents lists has the
\* file its metadata names as file_path present in the upload directory: the
\* delete of one document takes away no file another listed document names,
\* two uploads of one filename included.
C26_ListedDocumentsHaveFiles ==
    LET documents == Listed(collection)
    IN  \A i \in 1..Len(documents) : basename(documents[i].file_path) \in disk

----------------------------------------------------------------------------
\* Uploads in flight together (SpecUploads): requests that carry a text file
\* of one name with different contents, and a file read by a plain call.

RacingFiles ==
    {file \in UploadFiles :
        /\ file.size = MaxBytes
        /\ \/ file.filename = "a.txt"
              /\ file.content \in {<<"a">>, [i \in 1..MaxTextLen |-> "a"]}
           \/ file.filename = "b.pdf" /\ file.content = <<"a">>}

RaceRead(r) == UploadReadOf(r, RacingFiles)

UploadsNext ==
    \E r \in RequestIds :
        \/ RaceRead(r)
        \/ UploadSave(r)
        \/ UploadStore(r)

SpecUploads == Init /\ [][UploadsNext]_vars

\* C27: whatever the interleaving of the upload requests in flight, the chunks
\* stored under the document id a successful upload returns are the chunks of
\* the content that request carried.
C27_ChunksFromOwnContent ==
    (IsUpload /\ last.ret.status = "success") =>
        LET chunks == chunk_text(last.args.file.content)
            stored == ChunksOf(collection, last.ret.document_id)
        IN  /\ Cardinality(stored) = Len(chunks)
            /\ last.ret.total_chunks = Len(chunks)
            /\ \A c \in stored :
                   /\ collection[c].metadata.chunk_index + 1 \in 1..Len(chunks)
                   /\ collection[c].document
                          = chunks[collection[c].metadata.chunk_index + 1]

----------------------------------------------------------------------------
\* The store the query path reads (under Spec).

\* the step of C28
C28_VisibleStep ==
    /\ (last'.op = "upload_documents" /\ last'.ret.status = "success") =>
           Len(collection') > 0
    /\ (Len(collection) > 0 /\ last'.op # "delete_document") =>
           Len(collection') >= Len(collection)
    /\ (last'.op = "generate_answer" /\ Len(collection) > 0) =>
           /\ last'.ret # NoDocumentsResult
           /\ last'.args.fault = "none" =>
                  /\ last'.posted # <<>>
                  /\ last'.posted[1].context # <<>>

\* C28: a successful upload leaves the store non-empty, no call other than a
\* delete takes chunks out of it, and a generate_answer call made on a
\* non-empty store does not return the "no relevant documents" result: its
\* retrieval, through the RAG pipeline's own DocumentProcessor, returns hits
\* from the chunks the ingestion routes wrote.
C28_UploadsVisibleToQueries == [][C28_VisibleStep]_vars

\* a query answered from a chunk of the document the upload before it stored
C28_Witness ==
    /\ IsQuery
    /\ last.args.fault = "none"
    /\ last.posted # <<>>
    /\ last.ret.sources # <<>>
    /\ uuid_draws = 1
    /\ Len(collection) = 1
    /\ QueryProcessor.chroma_client # IngestionProcessor.chroma_client

----------------------------------------------------------------------------
\* POST /upload for a request that carries several files (SpecUploadRoute).

\* most files one request carries
MaxFiles == 2
\* file.filename is the name the client sent: it can name a directory
RouteFilenames == {"a.txt", "c.exe", "sub/d.txt"}
RouteFiles == [filename : RouteFilenames, size : FileSizes, content : {<<"a">>}]
RouteRequests == UNION {[1..n -> RouteFiles] : n \in 0..MaxFiles}

\* os.path.dirname of a name relative to the upload directory
dirname(filename) == IF filename = "sub/d.txt" THEN "sub" ELSE ""

\* open(file_path, "wb") raises FileNotFoundError for a path whose directory
\* does not exist: main.py creates the upload directory and nothing below it
save_raises(filename) == dirname(filename) # ""

\* the loop of upload_documents over the files of one request. The write of
\* the file is outside the try of the loop body: what it raises leaves the
\* route, after the files before it were handled.
RECURSIVE upload_request(_, _, _, _)
upload_request(coll, dsk, draws, files) ==
    IF files = <<>>
    THEN [collection |-> coll, disk |-> dsk, uuid_draws |-> draws,
          raised |-> FALSE, ret |-> [results |-> <<>>]]
    ELSE
    LET done == upload_request(coll, dsk, draws, SubSeq(files, 1, Len(files) - 1))
        file == files[Len(files)]
        out == upload_documents(done.collection, done.disk, done.uuid_draws, file, "none")
    IN  IF done.raised THEN done
        ELSE IF Accepted(file) /\ save_raises(file.filename)
        THEN [done EXCEPT !.raised = TRUE, !.ret = [exception |-> "FileNotFoundError"]]
        ELSE [collection |-> out.collection, disk |-> out.disk,
              uuid_draws |-> out.uuid_draws, raised |-> FALSE,
              ret |-> [results |-> Append(done.ret.results, out.ret)]]

\* POST /upload
UploadRequest ==
    \E files \in RouteRequests :
        LET out == upload_request(collection, disk, uuid_draws, files)
        IN  /\ uuid_draws + Len(files) <= MaxUuid
            /\ collection' = out.collection
            /\ disk' = out.disk
            /\ uuid_draws' = out.uuid_draws
            /\ last' = Call("upload_request", [files |-> files], out.raised, out.ret, <<>>)
            /\ UNCHANGED <<components, loop, requests, written>>

UploadRouteNext ==
    \/ UploadRequest
    \/ Delete
    \/ ListDocuments

SpecUploadRoute == Init /\ [][UploadRouteNext]_vars

\* the step of C29
C29_UploadRequestStep ==
    last'.op = "upload_request" =>
        LET files == last'.args.files
            rejected == {i \in 1..Len(files) : ~Accepted(files[i])}
            saved == {files[i].filename : i \in (1..Len(files)) \ rejected}
        IN  /\ ~last'.raised
            /\ Len(last'.ret.results) = Len(files)
            /\ \A i \in 1..Len(files) :
                   /\ last'.ret.results[i].filename = files[i].filename
                   /\ i \in rejected <=> last'.ret.results[i].status = "error"
            /\ disk' = disk \cup saved
            /\ Len(collection') = Len(collection) + Len(files) - Cardinality(rejected)
            /\ \A c \in (Len(collection) + 1)..Len(collection') :
                   collection'[c].metadata.filename \in saved

\* C29: the upload route returns one result per file of the request, in the
\* order of the request; a file whose extension is not allowed or whose size
\* is over the limit gets an error result, is not written to the upload
\* directory and adds no chunk, and the files after it are handled as if it
\* had not been there.
C29_OneResultPerFile == [][C29_UploadRequestStep]_vars

----------------------------------------------------------------------------
\* The totals of the statistics and of the listing (under Spec).

\* C30: in every reachable state the total_chunks of get_document_stats is the
\* total_chunks of get_all_documents, the sum of the lengths of the chunk lists
\* of the listed documents and the sum of their total_chunks fields; the last
\* call, where it was one of the two, returned that number.
C30_TotalsAgree ==
    LET stats == get_document_stats(collection, "none")
        listing == get_all_documents(collection, "none")
        documents == listing.documents
    IN  /\ stats.total_chunks = listing.total_chunks
        /\ listing.total_chunks = sum([i \in 1..Len(documents) |-> Len(documents[i].chunks)])
        /\ listing.total_chunks = sum([i \in 1..Len(documents) |-> documents[i].total_chunks])
        /\ (last.op \in {"get_document_stats", "get_all_documents"}
              /\ last.ret.status = "success") =>
               last.ret.total_chunks = stats.total_chunks

\* the statistics asked for on a store of two documents, one of them of two
\* chunks
C30_Witness ==
    /\ last.op = "get_document_stats"
    /\ last.ret.status = "success"
    /\ last.ret.total_chunks = 3
    /\ Len(Listed(collection)) = 2

====
